---- MODULE Spec2Model ----
(***************************************************************************)
(* NetworkInventorySystem of scripts/10_complete_examples/                 *)
(* complete_network_automation.py: the device loader, the status prober,   *)
(* the thread-pool inventory scan, the backup step and the report          *)
(* generator, as one state machine over the object's fields                *)
(* (devices, device_status) and the position of the calling thread and of  *)
(* the pool's tasks.                                                       *)
(***************************************************************************)
EXTENDS Integers, Sequences, FiniteSets, TLC

\* ------------------------------------------------------------------ bounds
MaxDevices == 2
\* largest number of candidate records in one devices document
MaxWorkers == 2
\* largest concurrent_connections a caller passes
MaxClock == 1
\* the wall clock runs from second 0 to second MaxClock

\* --------------------------------------------------------- JSON documents
\* A JSON object is a function from its keys to its values.  Values are
\* strings; a value that is a JSON number is written with a leading "#".
None == "None"
NoneInt == -1

IsStr(v) == v \notin {"#12345"}

\* A candidate record that is a JSON number and not an object.
NotAnObject == [json_number |-> "#5"]

IsDict(device) == "json_number" \notin DOMAIN device

Device(host) ==
    [f \in {"device_type", "host", "username", "password"} |->
        CASE f = "device_type" -> "cisco_ios"
          [] f = "host"        -> host
          [] f = "username"    -> "admin"
          [] f = "password"    -> "x"]

Named(device, name) ==
    [f \in DOMAIN device \cup {"name"} |-> IF f = "name" THEN name ELSE device[f]]

Without(device, field) == [f \in DOMAIN device \ {field} |-> device[f]]

Emptied(device, field) == [device EXCEPT ![field] = ""]

\* required_fields of _validate_device_config, in the order they are tested
required_fields == <<"device_type", "host", "username", "password">>

RequiredSet == {required_fields[i] : i \in 1..Len(required_fields)}

\* Records that pass validation: two that share a name, and one without a
\* name whose host is not a dotted quad.
GoodDevices ==
    { Named(Device("192.168.1.1"), "r1"),
      Named(Device("10.0.0.2"), "r1"),
      Device("10.1") }

\* Records the validator rejects by returning False.
RejectedDevices ==
    { Without(Named(Device("192.168.1.1"), "r1"), f) : f \in RequiredSet }
    \cup { Emptied(Named(Device("192.168.1.1"), "r1"), f) : f \in RequiredSet }
    \cup { Named(Device("999.999.999.999"), "r1"),
           Named(Device("router1"), "r1") }

\* Records on which the validator raises.
RaisingDevices == { NotAnObject, Named(Device("#12345"), "r1") }

Candidates == GoodDevices \cup RejectedDevices \cup RaisingDevices

SeqsUpTo(S, n) == UNION { [1..k -> S] : k \in 0..n }

\* Lists with a record on which the validator raises: alone, or before or
\* after a good record or a record without host.
RaisingLists ==
    LET others == { Named(Device("192.168.1.1"), "r1"),
                    Without(Named(Device("192.168.1.1"), "r1"), "host") }
    IN  { <<r>> : r \in RaisingDevices }
        \cup { <<x, r>> : x \in others, r \in RaisingDevices }
        \cup { <<r, x>> : x \in others, r \in RaisingDevices }

\* The record lists of the documents.
RecordLists ==
    SeqsUpTo(GoodDevices \cup RejectedDevices, MaxDevices) \cup RaisingLists

\* The devices file: absent, not JSON, {"devices": [...]}, a top-level
\* array, a single flat object, or a top-level number.
Documents ==
    { [kind |-> k, recs |-> <<>>] : k \in {"absent", "invalid_json", "scalar"} }
    \cup { [kind |-> "devices_key", recs |-> r] : r \in RecordLists }
    \cup { [kind |-> "array", recs |-> r] : r \in SeqsUpTo(GoodDevices, MaxDevices) }
    \cup { [kind |-> "flat", recs |-> <<d>>] : d \in Candidates \ {NotAnObject} }

\* ------------------------------------------------------- socket.inet_aton
\* The host string split at the dots, each part read as a number; a part
\* that is not a number reads as -1.
HostParts(host) ==
    CASE host = "192.168.1.1"     -> <<192, 168, 1, 1>>
      [] host = "10.0.0.2"        -> <<10, 0, 0, 2>>
      [] host = "10.1"            -> <<10, 1>>
      [] host = "999.999.999.999" -> <<999, 999, 999, 999>>
      [] OTHER                    -> <<-1>>

\* 256^k
RECURSIVE Pow256(_)
Pow256(k) == IF k = 0 THEN 1 ELSE 256 * Pow256(k - 1)

\* inet_aton accepts a, a.b, a.b.c and a.b.c.d: every part but the last is
\* one byte, the last part of n fills the 5 - n bytes that remain.
inet_aton(host) ==
    LET p == HostParts(host)
        n == Len(p)
    IN  /\ n \in 1..4
        /\ \A i \in 1..n : p[i] >= 0
        /\ \A i \in 1..(n - 1) : p[i] <= 255
        /\ p[n] \div Pow256(4 - n) <= 255

\* ------------------------------------------------ _validate_device_config
\* "valid" (True), "invalid" (False, with a warning) or "raise": the `in`
\* test raises TypeError on a record that is not a container, inet_aton
\* raises TypeError (not socket.error) on a host that is not a string.
HasRequired(device) ==
    \A i \in 1..Len(required_fields) :
        required_fields[i] \in DOMAIN device /\ device[required_fields[i]] # ""

\* The validator with the password test left out.
_validate_device_config_threeFields(device) ==
    IF ~IsDict(device) THEN "raise"
    ELSE IF \E i \in 1..3 :
                required_fields[i] \notin DOMAIN device \/ device[required_fields[i]] = ""
         THEN "invalid"
    ELSE IF ~IsStr(device["host"]) THEN "raise"
    ELSE IF inet_aton(device["host"]) THEN "valid"
    ELSE "invalid"

_validate_device_config(device) ==
    IF ~IsDict(device) THEN "raise"
    ELSE IF ~HasRequired(device) THEN "invalid"
    ELSE IF ~IsStr(device["host"]) THEN "raise"
    ELSE IF inet_aton(device["host"]) THEN "valid"
    ELSE "invalid"


\* load_devices, lines 107-112: the records the validator accepts, in
\* their order, or the fact that it raised on one of them.
RECURSIVE ValidateFrom(_, _, _)
ValidateFrom(raw, i, valid_devices) ==
    IF i > Len(raw) THEN [raised |-> FALSE, valid_devices |-> valid_devices]
    ELSE LET v == _validate_device_config(raw[i])
         IN  IF v = "raise" THEN [raised |-> TRUE, valid_devices |-> valid_devices]
             ELSE ValidateFrom(raw, i + 1,
                      IF v = "valid" THEN Append(valid_devices, raw[i])
                      ELSE valid_devices)

\* ------------------------------------------------------------ DeviceStatus
\* device.get('name', device.get('host'))
DeviceName(device) ==
    IF "name" \in DOMAIN device THEN device["name"]
    ELSE IF "host" \in DOMAIN device THEN device["host"]
    ELSE None

interfaces_total == 24

\* the draws of random.randint(8, 24) the model follows
InterfacesUp == {8}

ConnectedStatus(device, up, now) ==
    [name             |-> DeviceName(device),
     ip_address       |-> device["host"],
     device_type      |-> device["device_type"],
     status           |-> "connected",
     uptime           |-> "1 days, 0 hours",
     version          |-> "Cisco IOS Software, Version 15.2",
     interfaces_up    |-> up,
     interfaces_total |-> interfaces_total,
     last_backup      |-> now,
     error_message    |-> None]

\* The failed status without its error message.
FailedStatus_noMessage(device) ==
    [name             |-> DeviceName(device),
     ip_address       |-> device["host"],
     device_type      |-> device["device_type"],
     status           |-> "failed",
     uptime           |-> None,
     version          |-> None,
     interfaces_up    |-> NoneInt,
     interfaces_total |-> NoneInt,
     last_backup      |-> NoneInt,
     error_message    |-> None]

FailedStatus(device) ==
    [name             |-> DeviceName(device),
     ip_address       |-> device["host"],
     device_type      |-> device["device_type"],
     status           |-> "failed",
     uptime           |-> None,
     version          |-> None,
     interfaces_up    |-> NoneInt,
     interfaces_total |-> NoneInt,
     last_backup      |-> NoneInt,
     error_message    |-> "Simulated connection failure"]

\* simulate_device_connection: the outcome of one call as the future sees
\* it.  `ok` is the draw of random.random() against success_rate.  A record
\* without .get raises at line 169; a record without 'host' or
\* 'device_type' raises KeyError in the try block and again in its handler.
\* The prober without its try/except: the simulated failure leaves the call
\* as an exception.
simulate_device_connection_propagates(device, ok, up, now) ==
    IF ~IsDict(device) \/ ~({"host", "device_type"} \subseteq DOMAIN device) \/ ~ok
    THEN [raised |-> TRUE, result |-> <<>>]
    ELSE [raised |-> FALSE, result |-> <<ConnectedStatus(device, up, now)>>]

simulate_device_connection(device, ok, up, now) ==
    IF ~IsDict(device) \/ ~({"host", "device_type"} \subseteq DOMAIN device)
    THEN [raised |-> TRUE, result |-> <<>>]
    ELSE IF ok THEN [raised |-> FALSE, result |-> <<ConnectedStatus(device, up, now)>>]
    ELSE [raised |-> FALSE, result |-> <<FailedStatus(device)>>]

\* A mapping that keeps the entry a key already has.
Store_keepsFirst(mapping, key, value) ==
    [k \in DOMAIN mapping \cup {key} |->
        IF k \in DOMAIN mapping THEN mapping[k] ELSE value]

\* dict assignment mapping[key] = value
Store(mapping, key, value) ==
    [k \in DOMAIN mapping \cup {key} |-> IF k = key THEN value ELSE mapping[k]]

\* ------------------------------------------------------------------ state
VARIABLES
    devices,        \* self.devices
    device_status,  \* self.device_status: name -> DeviceStatus
    clock,          \* datetime.now(), in seconds
    pc,             \* where the calling thread is
    ret,            \* how the last call ended and what it returned
    max_workers,    \* the pool's max_workers
    fut,            \* future_to_device: the futures in submission order
    collected,      \* the futures as_completed has yielded
    results,        \* the results dict of the running call
    todo,           \* backup_configurations: the devices still to back up
    main,           \* main(): its arguments, where it is, its exit code
    send,           \* error_handling_demo.py: the running safe_send_command call
    script          \* the demo function that runs, its connection, its result

vars == <<devices, device_status, clock, pc, ret, max_workers, fut, collected, results, todo,
          main, send, script>>

\* the functions of error_handling_demo.py and mass_loopback_config.py
scripts == <<send, script>>

\* No safe_send_command call was made.
NoSend == [pc |-> "idle", max_retries |-> 0, attempt |-> 0, events |-> <<>>,
           output |-> None, error |-> None]

\* No demo function was called.
NoScript == [fn |-> "none", at |-> "idle", connection |-> "none",
             disconnects |-> 0, value |-> FALSE]

\* The object is used by a caller other than main().
NoArgs == [inventory |-> FALSE, backup |-> FALSE, report |-> None, concurrent |-> 0]

NoMain == [at |-> "none", args |-> NoArgs, formats |-> <<>>, printed |-> {},
           interrupted |-> FALSE, exit_code |-> NoneInt]

NoResults == [total_devices |-> 0]

NoCall == [op |-> "__init__", exit |-> "return"]

Init ==
    /\ devices = <<>>
    /\ device_status = <<>>
    /\ clock = 0
    /\ pc = "idle"
    /\ ret = NoCall
    /\ max_workers = 0
    /\ fut = <<>>
    /\ collected = {}
    /\ results = NoResults
    /\ todo = <<>>
    /\ main = NoMain
    /\ send = NoSend
    /\ script = NoScript

\* The locals of a call are gone when it ends.
ClearLocals ==
    /\ max_workers' = 0
    /\ fut' = <<>>
    /\ collected' = {}
    /\ results' = NoResults
    /\ todo' = <<>>

Tick ==
    /\ clock < MaxClock
    /\ clock' = clock + 1
    /\ UNCHANGED <<devices, device_status, pc, ret, max_workers, fut, collected, results, todo>>

\* ------------------------------------------------------------ load_devices
\* lines 96-104: open the file, parse it, bind self.devices to the raw list
Raw(doc) == doc.recs

LoadOpen(doc) ==
    /\ pc = "idle"
    /\ UNCHANGED <<device_status, clock, max_workers, fut, collected, results, todo>>
    /\ CASE doc.kind = "absent" ->
              /\ ret' = [op |-> "load_devices", exit |-> "FileNotFoundError",
                         value |-> FALSE, candidates |-> 0]
              /\ UNCHANGED <<devices, pc>>
         [] doc.kind = "invalid_json" ->
              /\ ret' = [op |-> "load_devices", exit |-> "JSONDecodeError",
                         value |-> FALSE, candidates |-> 0]
              /\ UNCHANGED <<devices, pc>>
         [] doc.kind = "scalar" ->
              \* `'devices' in data` raises TypeError on a number
              /\ ret' = [op |-> "load_devices", exit |-> "Exception",
                         value |-> FALSE, candidates |-> 0]
              /\ UNCHANGED <<devices, pc>>
         [] OTHER ->
              /\ devices' = Raw(doc)
              /\ pc' = "validate"
              \* line 104 logs the number of candidate records
              /\ ret' = [op |-> "load_devices", exit |-> "running",
                         value |-> FALSE, candidates |-> Len(Raw(doc))]

\* The loader reporting success whenever nothing raised.
LoadResult_alwaysTrue(valid_devices) == TRUE

\* line 115
LoadResult(valid_devices) == Len(valid_devices) > 0

\* lines 107-125: validate every record, keep the valid ones
LoadValidate ==
    /\ pc = "validate"
    /\ LET v == ValidateFrom(devices, 1, <<>>)
       IN  IF v.raised
           THEN /\ UNCHANGED devices
                /\ ret' = [ret EXCEPT !.exit = "Exception", !.value = FALSE]
           ELSE /\ devices' = v.valid_devices
                /\ ret' = [ret EXCEPT !.exit = "return", !.value = LoadResult(v.valid_devices)]
    /\ pc' = "idle"
    /\ UNCHANGED <<device_status, clock, max_workers, fut, collected, results, todo>>


\* -------------------------------------------------------- inventory_devices
NewFuture == [state |-> "PENDING", raised |-> FALSE, result |-> <<>>, calls |-> 0]

Running == { i \in 1..Len(fut) : fut[i].state = "RUNNING" }

AllFinished == \A i \in 1..Len(fut) : fut[i].state = "FINISHED"

\* lines 219-231: the results dict and the pool.  ThreadPoolExecutor
\* raises ValueError when max_workers <= 0.
InventoryCall(k) ==
    /\ pc = "idle"
    /\ IF k <= 0
       THEN /\ pc' = "idle"
            /\ ret' = [op |-> "inventory_devices", exit |-> "ValueError"]
            /\ UNCHANGED <<max_workers, results>>
       ELSE /\ max_workers' = k
            /\ results' = [total_devices |-> Len(devices), successful |-> 0,
                           failed |-> 0, devices |-> <<>>]
            /\ pc' = IF Len(devices) = 0 THEN "collect" ELSE "submit"
            /\ ret' = [op |-> "inventory_devices", exit |-> "running"]
    /\ UNCHANGED <<devices, device_status, clock, fut, collected, todo>>

\* lines 233-236: executor.submit for the next device, in list order
Submit ==
    /\ pc = "submit"
    /\ Len(fut) < Len(devices)
    /\ fut' = Append(fut, NewFuture)
    /\ pc' = IF Len(fut) + 1 = Len(devices) THEN "collect" ELSE "submit"
    /\ UNCHANGED <<devices, device_status, clock, ret, max_workers, collected, results, todo>>

\* A pool thread takes the oldest queued work item; the pool never has
\* more than max_workers threads.
\* A pool that starts a thread for every queued work item.
CanStart_ignoresLimit(i) ==
    /\ fut[i].state = "PENDING"
    /\ \A j \in 1..(i - 1) : fut[j].state # "PENDING"

CanStart(i) ==
    /\ fut[i].state = "PENDING"
    /\ \A j \in 1..(i - 1) : fut[j].state # "PENDING"
    /\ Cardinality(Running) < max_workers

StartProbe(i) ==
    /\ pc \in {"submit", "collect", "unwind"}
    /\ CanStart(i)
    /\ fut' = [fut EXCEPT ![i].state = "RUNNING", ![i].calls = @ + 1]
    /\ UNCHANGED <<devices, device_status, clock, pc, ret, max_workers, collected, results, todo>>

\* lines 242-260: the loop body on one completed future
\* The loop body without the count of line 249.
Tally_skipsFailed(res, f) ==
    IF f.raised
    THEN [res EXCEPT !.failed = @ + 1]
    ELSE IF f.result[1].status = "connected"
         THEN [res EXCEPT !.successful = @ + 1, !.devices = Append(@, f.result[1])]
         ELSE [res EXCEPT !.devices = Append(@, f.result[1])]

Tally(res, f) ==
    IF f.raised
    THEN [res EXCEPT !.failed = @ + 1]
    ELSE IF f.result[1].status = "connected"
         THEN [res EXCEPT !.successful = @ + 1, !.devices = Append(@, f.result[1])]
         ELSE [res EXCEPT !.failed = @ + 1, !.devices = Append(@, f.result[1])]

\* line 255
Recorded(mapping, f) ==
    IF f.raised THEN mapping ELSE Store(mapping, f.result[1].name, f.result[1])

\* A worker that puts a failed probe back on the queue.
Finished_requeuesFailure(f, outcome) ==
    IF ~outcome.raised /\ outcome.result[1].status = "failed"
    THEN [f EXCEPT !.state = "PENDING"]
    ELSE [f EXCEPT !.state = "FINISHED", !.raised = outcome.raised, !.result = outcome.result]

\* What the worker leaves behind when simulate_device_connection ends: the
\* future holds the returned DeviceStatus or the exception.
Finished(f, outcome) ==
    [f EXCEPT !.state = "FINISHED", !.raised = outcome.raised, !.result = outcome.result]

\* A worker that stores its status in self.device_status itself.
FinishProbe_writesMapping(i, ok, up) ==
    /\ pc \in {"submit", "collect", "unwind"}
    /\ fut[i].state = "RUNNING"
    /\ fut' = [fut EXCEPT ![i] = Finished(@, simulate_device_connection(devices[i], ok, up, clock))]
    /\ device_status' = Recorded(device_status, fut'[i])
    /\ UNCHANGED <<devices, clock, pc, ret, max_workers, collected, results, todo>>

FinishProbe(i, ok, up) ==
    /\ pc \in {"submit", "collect", "unwind"}
    /\ fut[i].state = "RUNNING"
    /\ fut' = [fut EXCEPT ![i] = Finished(@, simulate_device_connection(devices[i], ok, up, clock))]
    /\ UNCHANGED <<devices, device_status, clock, pc, ret, max_workers, collected, results, todo>>

\* line 239: as_completed yields a finished future not yet yielded
Collect(i) ==
    /\ pc = "collect"
    /\ i \in 1..Len(fut)
    /\ i \notin collected
    /\ fut[i].state = "FINISHED"
    /\ collected' = collected \cup {i}
    /\ results' = Tally(results, fut[i])
    /\ device_status' = Recorded(device_status, fut[i])
    \* line 259: device.get in the handler raises on a record without .get
    /\ pc' = IF fut[i].raised /\ ~IsDict(devices[i]) THEN "unwind" ELSE "collect"
    /\ UNCHANGED <<devices, clock, ret, max_workers, fut, todo>>

\* lines 262-268, after the with block has joined the pool
\* A scan that stops at the first failed probe.
ScanDone_stopsOnFailure ==
    \/ collected = 1..Len(fut) /\ AllFinished
    \/ results.failed > 0

ScanDone ==
    /\ collected = 1..Len(fut)
    /\ AllFinished

InventoryReturn ==
    /\ pc = "collect"
    /\ ScanDone
    /\ pc' = "idle"
    /\ ret' = [op |-> "inventory_devices", exit |-> "return", value |-> results]
    /\ ClearLocals
    /\ UNCHANGED <<devices, device_status, clock>>

\* the with block joins the pool (shutdown(wait=True)) before the exception
\* of the loop body leaves inventory_devices
InventoryRaise ==
    /\ pc = "unwind"
    /\ AllFinished
    /\ pc' = "idle"
    /\ ret' = [op |-> "inventory_devices", exit |-> "AttributeError"]
    /\ ClearLocals
    /\ UNCHANGED <<devices, device_status, clock>>

\* ---------------------------------------------------- backup_configurations
TargetNames == {"r1", "10.0.0.2"}

\* target_devices: None or a list of names and hosts
Targets ==
    { [none |-> TRUE, list |-> {}] }
    \cup { [none |-> FALSE, list |-> S] : S \in SUBSET TargetNames }

Get(device, field) == IF field \in DOMAIN device THEN device[field] ELSE None

\* lines 283-286
DevicesToBackup(target_devices) ==
    IF ~target_devices.none /\ target_devices.list # {}
    THEN SelectSeq(devices, LAMBDA d : Get(d, "name") \in target_devices.list
                                       \/ Get(d, "host") \in target_devices.list)
    ELSE devices

BackupCall(target_devices) ==
    /\ pc = "idle"
    /\ IF ~target_devices.none /\ target_devices.list # {}
          /\ \E i \in 1..Len(devices) : ~IsDict(devices[i])
       THEN \* d.get raises in the list comprehension of line 284
            /\ pc' = "idle"
            /\ ret' = [op |-> "backup_configurations", exit |-> "AttributeError"]
            /\ UNCHANGED <<results, todo>>
       ELSE /\ pc' = "backup"
            /\ ret' = [op |-> "backup_configurations", exit |-> "running",
                       target_devices |-> target_devices]
            /\ todo' = DevicesToBackup(target_devices)
            /\ results' = [total_devices |-> Len(DevicesToBackup(target_devices)),
                           successful |-> 0, failed |-> 0, backup_files |-> <<>>]
    /\ UNCHANGED <<devices, device_status, clock, max_workers, fut, collected>>

\* <device_name>_running_config_<timestamp>.cfg
BackupPath(device_name, timestamp) == [name |-> device_name, timestamp |-> timestamp]

\* The backup step clearing the error message of the device it backed up.
Stamped_clearsError(mapping, device_name, now) ==
    IF device_name \in DOMAIN mapping
    THEN [mapping EXCEPT ![device_name].last_backup = now,
                         ![device_name].error_message = None]
    ELSE mapping

\* line 317-318
Stamped(mapping, device_name, now) ==
    IF device_name \in DOMAIN mapping
    THEN [mapping EXCEPT ![device_name].last_backup = now]
    ELSE mapping

\* A loop that gives up at the first write that fails.
Remaining_stopsOnFailure(devices_to_backup, written) ==
    IF written THEN Tail(devices_to_backup) ELSE <<>>

\* line 298: the for loop goes on to the next device after the try block,
\* whether the body ended at line 320 or in the handler of line 322
Remaining(devices_to_backup, written) == Tail(devices_to_backup)

\* lines 298-324: one pass of the loop.  write_ok is whether open and write
\* of the backup file succeed.
BackupStep(write_ok) ==
    /\ pc = "backup"
    /\ todo # <<>>
    /\ LET device == Head(todo)
       IN  IF ~IsDict(device)
           THEN \* line 299 is outside the try block
                /\ pc' = "idle"
                /\ ret' = [op |-> "backup_configurations", exit |-> "AttributeError"]
                /\ results' = NoResults
                /\ todo' = <<>>
                /\ UNCHANGED device_status
           ELSE /\ pc' = "backup"
                /\ todo' = Remaining(todo, "host" \in DOMAIN device /\ write_ok)
                /\ UNCHANGED ret
                /\ IF "host" \in DOMAIN device /\ write_ok
                   THEN /\ results' = [results EXCEPT
                               !.successful = @ + 1,
                               !.backup_files = Append(@, BackupPath(DeviceName(device), clock))]
                        /\ device_status' = Stamped(device_status, DeviceName(device), clock)
                   ELSE /\ results' = [results EXCEPT !.failed = @ + 1]
                        /\ UNCHANGED device_status
    /\ UNCHANGED <<devices, clock, max_workers, fut, collected>>

BackupReturn ==
    /\ pc = "backup"
    /\ todo = <<>>
    /\ pc' = "idle"
    /\ ret' = [op |-> "backup_configurations", exit |-> "return", value |-> results]
    /\ ClearLocals
    /\ UNCHANGED <<devices, device_status, clock>>

\* ------------------------------------------------ generate_inventory_report
Formats == {"text", "html", "json", "csv", "xml"}

Extension(output_format) ==
    CASE output_format = "text" -> "txt"
      [] output_format = "html" -> "html"
      [] output_format = "json" -> "json"
      [] output_format = "csv"  -> "csv"
      [] OTHER -> None

CountStatus(mapping, status) ==
    Cardinality({ k \in DOMAIN mapping : mapping[k].status = status })

\* How the call ends: ValueError on an unknown format before any file is
\* opened, OSError when the file cannot be written, ZeroDivisionError in the
\* text report's success rate (line 524) over an empty mapping.
ReportExit(output_format, write_ok) ==
    IF Extension(output_format) = None THEN "ValueError"
    ELSE IF ~write_ok THEN "OSError"
    ELSE IF output_format = "text" /\ DOMAIN device_status = {} THEN "ZeroDivisionError"
    ELSE "return"

\* lines 531-543: the lines the text report writes for one device
TextRow(s) ==
    IF s.status = "connected"
    THEN IF s.last_backup # NoneInt
         THEN [name |-> s.name, ip_address |-> s.ip_address,
               device_type |-> s.device_type, status |-> s.status,
               uptime |-> s.uptime, version |-> s.version,
               interfaces |-> <<s.interfaces_up, s.interfaces_total>>,
               last_backup |-> s.last_backup]
         ELSE [name |-> s.name, ip_address |-> s.ip_address,
               device_type |-> s.device_type, status |-> s.status,
               uptime |-> s.uptime, version |-> s.version,
               interfaces |-> <<s.interfaces_up, s.interfaces_total>>]
    ELSE [name |-> s.name, ip_address |-> s.ip_address,
          device_type |-> s.device_type, status |-> s.status,
          error_message |-> s.error_message]

\* The text report with 'Failed Devices' counting every entry.
_generate_text_report_failedIsTotal(mapping, now) ==
    [generated     |-> now,
     total_devices |-> Cardinality(DOMAIN mapping),
     connected     |-> CountStatus(mapping, "connected"),
     failed        |-> Cardinality(DOMAIN mapping),
     devices       |-> [k \in DOMAIN mapping |-> TextRow(mapping[k])]]

\* lines 511-543: what the text report holds when it is written to the end
_generate_text_report(mapping, now) ==
    [generated     |-> now,
     total_devices |-> Cardinality(DOMAIN mapping),
     connected     |-> CountStatus(mapping, "connected"),
     failed        |-> Cardinality(DOMAIN mapping) - CountStatus(mapping, "connected"),
     devices       |-> [k \in DOMAIN mapping |-> TextRow(mapping[k])]]

\* lines 511-523: what is in the file when line 524 divides by zero
TextReportHead(mapping, now) ==
    [generated     |-> now,
     total_devices |-> Cardinality(DOMAIN mapping),
     connected     |-> CountStatus(mapping, "connected"),
     failed        |-> Cardinality(DOMAIN mapping) - CountStatus(mapping, "connected")]

\* lines 589-608: the div of one device
HtmlRow(s) ==
    IF s.status = "connected"
    THEN [name |-> s.name, ip_address |-> s.ip_address,
          device_type |-> s.device_type, status |-> s.status,
          uptime |-> s.uptime, version |-> s.version,
          interfaces |-> <<s.interfaces_up, s.interfaces_total>>]
    ELSE [name |-> s.name, ip_address |-> s.ip_address,
          device_type |-> s.device_type, status |-> s.status,
          error_message |-> s.error_message]

\* lines 548-617
_generate_html_report(mapping, now) ==
    [generated     |-> now,
     total_devices |-> Cardinality(DOMAIN mapping),
     connected     |-> CountStatus(mapping, "connected"),
     failed        |-> CountStatus(mapping, "failed"),
     devices       |-> [k \in DOMAIN mapping |-> HtmlRow(mapping[k])]]

\* lines 633-649: device_data of one device
JsonRow(s) ==
    IF s.status = "connected"
    THEN [name |-> s.name, ip_address |-> s.ip_address,
          device_type |-> s.device_type, status |-> s.status,
          uptime |-> s.uptime, version |-> s.version,
          interfaces_up |-> s.interfaces_up,
          interfaces_total |-> s.interfaces_total,
          last_backup |-> s.last_backup]
    ELSE [name |-> s.name, ip_address |-> s.ip_address,
          device_type |-> s.device_type, status |-> s.status,
          error_message |-> s.error_message]

\* The JSON report whose summary counts every entry that is not connected
\* twice.
_generate_json_report_doubleFailed(mapping, now) ==
    [generated     |-> now,
     total_devices |-> Cardinality(DOMAIN mapping),
     summary       |-> [connected |-> CountStatus(mapping, "connected"),
                        failed    |-> 2 * CountStatus(mapping, "failed")],
     devices       |-> [k \in DOMAIN mapping |-> JsonRow(mapping[k])]]

\* lines 622-654: report_data
_generate_json_report(mapping, now) ==
    [generated     |-> now,
     total_devices |-> Cardinality(DOMAIN mapping),
     summary       |-> [connected |-> CountStatus(mapping, "connected"),
                        failed    |-> CountStatus(mapping, "failed")],
     devices       |-> [k \in DOMAIN mapping |-> JsonRow(mapping[k])]]

\* lines 659-662
fieldnames ==
    <<"name", "ip_address", "device_type", "status", "uptime", "version",
      "interfaces_up", "interfaces_total", "last_backup", "error_message">>

\* `value or ''` as the csv writer prints it: the empty cell for None,
\* the decimal digits for a number
CellOfStr(v) == IF v = None THEN "" ELSE v
CellOfInt(v) == IF v = NoneInt \/ v = 0 THEN "" ELSE ToString(v)
\* last_backup is a timestamp string: the second 0 is not empty
CellOfTime(v) == IF v = NoneInt THEN "" ELSE ToString(v)

\* lines 669-680: row
CsvRow(s) ==
    [name             |-> s.name,
     ip_address       |-> s.ip_address,
     device_type      |-> s.device_type,
     status           |-> s.status,
     uptime           |-> CellOfStr(s.uptime),
     version          |-> CellOfStr(s.version),
     interfaces_up    |-> CellOfInt(s.interfaces_up),
     interfaces_total |-> CellOfInt(s.interfaces_total),
     last_backup      |-> CellOfTime(s.last_backup),
     error_message    |-> CellOfStr(s.error_message)]

\* lines 664-681: the header line and the data rows
_generate_csv_report(mapping) ==
    [header |-> fieldnames,
     rows   |-> [k \in DOMAIN mapping |-> CsvRow(mapping[k])]]

\* inventory_report_<timestamp>.<ext>
ReportPath(timestamp, output_format) ==
    [timestamp |-> timestamp, ext |-> Extension(output_format)]

\* The file a generate_inventory_report call leaves in the reports
\* directory: none when the format is unknown or the file cannot be opened,
\* the head of the text report when line 524 raises.
ReportFile(mapping, output_format, write_ok, now) ==
    IF Extension(output_format) = None \/ ~write_ok THEN <<>>
    ELSE IF output_format = "text"
         THEN IF DOMAIN mapping = {}
              THEN <<[path |-> ReportPath(now, output_format), complete |-> FALSE,
                      content |-> TextReportHead(mapping, now)]>>
              ELSE <<[path |-> ReportPath(now, output_format), complete |-> TRUE,
                      content |-> _generate_text_report(mapping, now)]>>
    ELSE IF output_format = "html"
         THEN <<[path |-> ReportPath(now, output_format), complete |-> TRUE,
                 content |-> _generate_html_report(mapping, now)]>>
    ELSE IF output_format = "json"
         THEN <<[path |-> ReportPath(now, output_format), complete |-> TRUE,
                 content |-> _generate_json_report(mapping, now)]>>
    ELSE <<[path |-> ReportPath(now, output_format), complete |-> TRUE,
            content |-> _generate_csv_report(mapping)]>>

GenerateReport(output_format, write_ok) ==
    /\ pc = "idle"
    /\ ret' = [op |-> "generate_inventory_report",
               exit |-> ReportExit(output_format, write_ok),
               format |-> output_format,
               path |-> ReportPath(clock, output_format),
               total_devices |-> Cardinality(DOMAIN device_status),
               connected |-> CountStatus(device_status, "connected"),
               written |-> ReportFile(device_status, output_format, write_ok, clock)]
    /\ UNCHANGED <<devices, device_status, clock, pc, max_workers, fut, collected, results, todo>>

\* ------------------------------------------------------------ specification
LoaderNext ==
    /\ \/ \E doc \in Documents : LoadOpen(doc)
       \/ LoadValidate
    /\ UNCHANGED <<main, send, script>>

WorkerNext ==
    /\ \/ \E i \in 1..Len(fut) : StartProbe(i)
       \/ \E i \in 1..Len(fut), ok \in BOOLEAN, up \in InterfacesUp : FinishProbe(i, ok, up)
    /\ UNCHANGED <<main, send, script>>

ScanNext ==
    /\ \/ Submit
       \/ \E i \in 1..Len(fut) : Collect(i)
       \/ InventoryReturn
       \/ InventoryRaise
    /\ UNCHANGED <<main, send, script>>

OperationsNext ==
    /\ \/ Tick
       \/ \E k \in 0..MaxWorkers : InventoryCall(k)
       \/ WorkerNext
       \/ ScanNext
       \/ \E t \in Targets : BackupCall(t)
       \/ \E w \in BOOLEAN : BackupStep(w)
       \/ BackupReturn
       \/ \E f \in Formats, w \in BOOLEAN : GenerateReport(f, w)
    /\ UNCHANGED <<main, send, script>>

Next == LoaderNext \/ OperationsNext

\* The whole object: any calls in any order, from construction.
Spec == Init /\ [][Next]_vars

\* The loader alone: any sequence of load_devices calls.
SpecLoader == Init /\ [][LoaderNext]_vars

\* self.devices as one load_devices call on a new object leaves it
AfterLoad(doc) ==
    IF doc.kind \in {"absent", "invalid_json", "scalar"} THEN <<>>
    ELSE LET v == ValidateFrom(Raw(doc), 1, <<>>)
         IN  IF v.raised THEN Raw(doc) ELSE v.valid_devices

InitLoaded ==
    /\ devices \in { AfterLoad(doc) : doc \in Documents }
    /\ device_status = <<>>
    /\ clock = 0
    /\ pc = "idle"
    /\ ret = NoCall
    /\ max_workers = 0
    /\ fut = <<>>
    /\ collected = {}
    /\ results = NoResults
    /\ todo = <<>>
    /\ main = NoMain
    /\ send = NoSend
    /\ script = NoScript

\* The operations on an object whose devices are loaded.
SpecLoaded == InitLoaded /\ [][OperationsNext]_vars

\* The pool's threads and the calling thread are scheduled by the operating
\* system: a step that stays possible is taken.
FairLoaded ==
    /\ SpecLoaded
    /\ WF_vars(WorkerNext)
    /\ WF_vars(ScanNext)

\* The calling thread is inside inventory_devices.
InScan == pc \in {"submit", "collect", "unwind"}

\* -------------------------------------------------------------------- main
\* the fields of the object and the locals of its running call
object == <<devices, device_status, clock, pc, ret, max_workers, fut, collected, results, todo>>

\* default_config['concurrent_connections'], line 713
concurrent_connections == 5

\* The command lines: --inventory, --backup, --report <format> (argparse
\* admits the four formats only), --concurrent <int>.
Args ==
    [inventory : BOOLEAN, backup : BOOLEAN,
     report : {None, "text", "html", "json", "csv"},
     concurrent : {-1, 0, 1}]

\* The devices files main is run on: absent, not JSON, and lists with no
\* record, valid records (two of them sharing a name), a rejected record,
\* and a record on which the validator raises.
MainDocuments ==
    { [kind |-> k, recs |-> <<>>] : k \in {"absent", "invalid_json"} }
    \cup { [kind |-> "devices_key", recs |-> r] :
             r \in { <<>>,
                     <<Device("10.1")>>,
                     <<Named(Device("192.168.1.1"), "r1"), Device("10.1")>>,
                     <<Named(Device("192.168.1.1"), "r1"), Named(Device("10.0.0.2"), "r1")>>,
                     <<Without(Device("10.1"), "host")>>,
                     <<Without(Device("10.1"), "host"), Device("10.1")>>,
                     <<Device("10.1"), NotAnObject>> } }

\* lines 767-768: `if args.concurrent:` keeps the default for 0
ConcurrentConnections(args) ==
    IF args.concurrent # 0 THEN args.concurrent ELSE concurrent_connections

\* return <code>
Exited(code) == [main EXCEPT !.at = "exited", !.exit_code = code]

\* An exit that answers every failed load with 0.
AfterLoad_exitsZero(loaded) ==
    IF loaded THEN [main EXCEPT !.at = "if_inventory"] ELSE Exited(0)

\* lines 775-777
AfterLoadDevices(loaded) ==
    IF loaded THEN [main EXCEPT !.at = "if_inventory"] ELSE Exited(1)

InitMain ==
    /\ devices = <<>>
    /\ device_status = <<>>
    /\ clock = 0
    /\ pc = "idle"
    /\ ret = NoCall
    /\ max_workers = 0
    /\ fut = <<>>
    /\ collected = {}
    /\ results = NoResults
    /\ todo = <<>>
    /\ main = [NoMain EXCEPT !.at = "start"]
    /\ send = NoSend
    /\ script = NoScript

\* lines 754-775: parse the arguments, build the object, call load_devices
MainLoad(args, doc) ==
    /\ main.at = "start"
    /\ LoadOpen(doc)
    /\ main' = [main EXCEPT !.at = "load", !.args = args]

MainValidate ==
    /\ main.at = "load"
    /\ LoadValidate
    /\ UNCHANGED main

\* lines 775-777: load_devices has returned
MainLoaded ==
    /\ main.at = "load"
    /\ pc = "idle"
    /\ main' = AfterLoadDevices(ret.value)
    /\ UNCHANGED object

\* lines 780-782
MainIfInventory ==
    /\ main.at = "if_inventory"
    /\ IF main.args.inventory
       THEN /\ InventoryCall(ConcurrentConnections(main.args))
            /\ main' = [main EXCEPT !.at = "inventory"]
       ELSE /\ main' = [main EXCEPT !.at = "if_backup"]
            /\ UNCHANGED object

\* the scan of inventory_devices, its pool threads included
MainScan ==
    /\ main.at \in {"inventory", "demo_inventory"}
    /\ \/ Submit
       \/ \E i \in 1..Len(fut) : Collect(i)
       \/ InventoryReturn
       \/ \E i \in 1..Len(fut) : StartProbe(i)
       \/ \E i \in 1..Len(fut), ok \in BOOLEAN, up \in InterfacesUp : FinishProbe(i, ok, up)
    /\ UNCHANGED main

\* A main that generates the report before it runs the backup.
After_reportBeforeBackup(at) ==
    CASE at = "inventory"      -> "if_report"
      [] at = "report"         -> "if_backup"
      [] at = "backup"         -> "if_none"
      [] at = "demo_inventory" -> "demo_backup_call"
      [] at = "demo_backup"    -> "demo_reports"

\* Where main goes when the call it made returns.
After(at) ==
    CASE at = "inventory"      -> "if_backup"
      [] at = "backup"         -> "if_report"
      [] at = "report"         -> "if_none"
      [] at = "demo_inventory" -> "demo_backup_call"
      [] at = "demo_backup"    -> "demo_reports"

\* The block main prints after the call: lines 784-790, 796-803, 809-813.
Section(at) ==
    CASE at = "inventory" -> {"INVENTORY SCAN RESULTS"}
      [] at = "backup"    -> {"BACKUP RESULTS"}
      [] at = "report"    -> {"REPORT GENERATION"}
      [] OTHER            -> {}

\* The call main made has ended: main prints its results and goes on, or
\* the exception reaches the handler of line 843.
MainOperationEnded ==
    /\ main.at \in {"inventory", "backup", "report", "demo_inventory", "demo_backup"}
    /\ pc = "idle"
    /\ main' = IF ret.exit = "return"
               THEN [main EXCEPT !.at = After(main.at), !.printed = @ \cup Section(main.at)]
               ELSE Exited(1)
    /\ UNCHANGED object

\* lines 792-794
MainIfBackup ==
    /\ main.at = "if_backup"
    /\ IF main.args.backup
       THEN /\ BackupCall([none |-> TRUE, list |-> {}])
            /\ main' = [main EXCEPT !.at = "backup"]
       ELSE /\ main' = [main EXCEPT !.at = "if_report"]
            /\ UNCHANGED object

\* the loop of backup_configurations
MainBackup ==
    /\ main.at \in {"backup", "demo_backup"}
    /\ \/ \E w \in BOOLEAN : BackupStep(w)
       \/ BackupReturn
    /\ UNCHANGED main

\* lines 805-807
MainIfReport ==
    /\ main.at = "if_report"
    /\ IF main.args.report # None
       THEN /\ \E w \in BOOLEAN : GenerateReport(main.args.report, w)
            /\ main' = [main EXCEPT !.at = "report"]
       ELSE /\ main' = [main EXCEPT !.at = "if_none"]
            /\ UNCHANGED object

\* lines 816-820 and 837-838
MainIfNone ==
    /\ main.at = "if_none"
    /\ IF ~main.args.inventory /\ ~main.args.backup /\ main.args.report = None
       THEN /\ InventoryCall(ConcurrentConnections(main.args))
            /\ main' = [main EXCEPT !.at = "demo_inventory",
                                    !.formats = <<"text", "html", "json", "csv">>]
       ELSE /\ main' = Exited(0)
            /\ UNCHANGED object

\* line 823
MainDemoBackup ==
    /\ main.at = "demo_backup_call"
    /\ BackupCall([none |-> TRUE, list |-> {}])
    /\ main' = [main EXCEPT !.at = "demo_backup"]

\* lines 826-838: the four reports, the demo summary, return 0
MainDemoReport ==
    /\ main.at = "demo_reports"
    /\ IF main.formats = <<>>
       THEN /\ main' = [Exited(0) EXCEPT !.printed = @ \cup {"COMPLETE NETWORK AUTOMATION SYSTEM DEMO"}]
            /\ UNCHANGED object
       ELSE \E w \in BOOLEAN :
               /\ GenerateReport(Head(main.formats), w)
               /\ main' = IF ReportExit(Head(main.formats), w) = "return"
                          THEN [main EXCEPT !.formats = Tail(@)]
                          ELSE Exited(1)

\* Ctrl-C: KeyboardInterrupt in the main thread.  Inside the with block of
\* inventory_devices the pool is joined before the exception goes on.
MainInterrupt ==
    /\ main.at \notin {"none", "start", "exited"}
    /\ ~main.interrupted
    /\ IF InScan
       THEN /\ pc' = "unwind"
            /\ main' = [main EXCEPT !.interrupted = TRUE]
            /\ UNCHANGED <<devices, device_status, clock, ret, max_workers, fut, collected, results, todo>>
       ELSE /\ pc' = "idle"
            /\ ret' = [op |-> ret.op, exit |-> "KeyboardInterrupt"]
            /\ ClearLocals
            /\ main' = [Exited(130) EXCEPT !.interrupted = TRUE]
            /\ UNCHANGED <<devices, device_status, clock>>

\* lines 840-842, once the pool has finished
MainUnwound ==
    /\ main.interrupted
    /\ pc = "unwind"
    /\ AllFinished
    /\ pc' = "idle"
    /\ ret' = [op |-> "inventory_devices", exit |-> "KeyboardInterrupt"]
    /\ ClearLocals
    /\ main' = Exited(130)
    /\ UNCHANGED <<devices, device_status, clock>>

MainTick ==
    /\ main.at # "exited"
    /\ Tick
    /\ UNCHANGED main

MainNext ==
    /\ \/ \E args \in Args, doc \in MainDocuments : MainLoad(args, doc)
       \/ MainValidate
       \/ MainLoaded
       \/ MainIfInventory
       \/ MainScan
       \/ MainOperationEnded
       \/ MainIfBackup
       \/ MainBackup
       \/ MainIfReport
       \/ MainIfNone
       \/ MainDemoBackup
       \/ MainDemoReport
       \/ MainInterrupt
       \/ MainUnwound
       \/ MainTick
    /\ UNCHANGED scripts

\* One run of the program from the command line.
SpecMain == InitMain /\ [][MainNext]_vars

\* One object whose devices are loaded again between its inventory scans.
ReloadNext ==
    \/ LoaderNext
    \/ \E k \in 0..MaxWorkers : InventoryCall(k) /\ UNCHANGED <<main, send, script>>
    \/ WorkerNext
    \/ ScanNext

SpecReload == Init /\ [][ReloadNext]_vars

\* ------------------------------------------------------ safe_send_command
\* error_handling_demo.py, lines 155-190
MaxRetries == 3
\* largest max_retries a caller passes; 3 is the default of line 155

\* the default max_retries of safe_send_command
max_retries_default == 3

\* The frame of a new call: range(max_retries) is about to start.
NewSend(max_retries) ==
    [pc |-> "loop", max_retries |-> max_retries, attempt |-> 0, events |-> <<>>,
     output |-> None, error |-> None]

\* A handler that waits after every failed attempt.
ShouldRetry_always(attempt, max_retries) == TRUE

\* line 182
ShouldRetry(attempt, max_retries) == attempt < max_retries - 1

\* lines 170-188: one pass of the for loop.  `ok` is whether
\* connection.send_command returns; the wait of line 184 is part of the pass.
SendAttempt(ok) ==
    /\ send.pc = "loop"
    /\ send.attempt < send.max_retries
    /\ send' =
          IF ok
          THEN [send EXCEPT !.pc = "returned",
                            !.events = Append(@, "send"),
                            !.output = "output", !.error = None]
          ELSE IF ShouldRetry(send.attempt, send.max_retries)
               THEN [send EXCEPT !.attempt = @ + 1,
                                 !.events = @ \o <<"send", "sleep">>]
               ELSE [send EXCEPT !.pc = "returned",
                                 !.events = Append(@, "send"),
                                 !.output = None, !.error = "failed"]
    /\ UNCHANGED script

\* line 190: range(max_retries) is used up
SendExhausted ==
    /\ send.pc = "loop"
    /\ send.attempt >= send.max_retries
    /\ send' = [send EXCEPT !.pc = "returned", !.output = None, !.error = "failed"]
    /\ UNCHANGED script

\* A caller calls safe_send_command(connection, command, logger, max_retries)
\* on a connection it holds.
SafeSendCall(max_retries) ==
    /\ script.at \in {"idle", "returned"}
    /\ send' = NewSend(max_retries)
    /\ script' = [fn |-> "safe_send_command", at |-> "send", connection |-> "open",
                  disconnects |-> 0, value |-> FALSE]

\* ... and gets (output, error) back
SafeSendReturn ==
    /\ script.fn = "safe_send_command"
    /\ script.at = "send"
    /\ send.pc = "returned"
    /\ script' = [script EXCEPT !.at = "returned", !.value = (send.error = None)]
    /\ UNCHANGED send

\* ------------------------------- backup_device_config_with_error_handling
\* error_handling_demo.py, lines 359-456
\* connection.disconnect() inside its try block: the call is made, and the
\* connection is closed unless disconnect raises
Disconnected(s, disc_ok) ==
    [s EXCEPT !.disconnects = @ + 1,
              !.connection = IF disc_ok THEN "closed" ELSE "open"]

Returned(s, value) == [s EXCEPT !.at = "returned", !.value = value]

\* lines 369-381: connect, then ask for the running configuration
BackupDemoCall(connect_ok) ==
    /\ script.at \in {"idle", "returned"}
    /\ IF connect_ok
       THEN /\ script' = [fn |-> "backup_device_config_with_error_handling",
                          at |-> "retrieve", connection |-> "open",
                          disconnects |-> 0, value |-> FALSE]
            /\ send' = NewSend(max_retries_default)
       ELSE /\ script' = [fn |-> "backup_device_config_with_error_handling",
                          at |-> "returned", connection |-> "none",
                          disconnects |-> 0, value |-> FALSE]
            /\ UNCHANGED send

\* lines 381-393: safe_send_command has returned
BackupDemoRetrieved(disc_ok) ==
    /\ script.fn = "backup_device_config_with_error_handling"
    /\ script.at = "retrieve"
    /\ send.pc = "returned"
    /\ script' = IF send.error # None \/ send.output = None
                 THEN Returned(Disconnected(script, disc_ok), FALSE)
                 ELSE [script EXCEPT !.at = "save"]
    /\ UNCHANGED send

\* lines 395-429: the backup directory, the file name, the file.  A
\* failing makedirs reaches the handler of line 453, a failing open or
\* write the handler of line 425; find_prompt failing is handled.
BackupDemoSave(mkdir_ok, prompt_ok, write_ok) ==
    /\ script.fn = "backup_device_config_with_error_handling"
    /\ script.at = "save"
    /\ script' = IF mkdir_ok /\ write_ok
                 THEN [script EXCEPT !.at = "cleanup"]
                 ELSE Returned(script, FALSE)
    /\ UNCHANGED send

\* lines 431-451: verify the file, disconnect, return True
BackupDemoCleanup(disc_ok) ==
    /\ script.fn = "backup_device_config_with_error_handling"
    /\ script.at = "cleanup"
    /\ script' = Returned(Disconnected(script, disc_ok), TRUE)
    /\ UNCHANGED send

\* ---------------------------------------------- demo_mass_loopback_config
\* mass_loopback_config.py, lines 326-388
\* lines 338-359: the confirmation, then ConnectHandler
LoopbackDemoCall(confirmed, connect_ok) ==
    /\ script.at \in {"idle", "returned"}
    /\ script' = IF confirmed /\ connect_ok
                 THEN [fn |-> "demo_mass_loopback_config", at |-> "enable",
                       connection |-> "open", disconnects |-> 0, value |-> FALSE]
                 ELSE [fn |-> "demo_mass_loopback_config", at |-> "returned",
                       connection |-> "none", disconnects |-> 0, value |-> FALSE]
    /\ UNCHANGED send

\* lines 361-364: check_enable_mode and enable; an exception reaches the
\* handler of line 387
LoopbackDemoEnable(enable_ok) ==
    /\ script.fn = "demo_mass_loopback_config"
    /\ script.at = "enable"
    /\ script' = IF enable_ok THEN [script EXCEPT !.at = "validate"]
                 ELSE Returned(script, FALSE)
    /\ UNCHANGED send

\* lines 366-370: validate_loopback_data
LoopbackDemoValidate(is_valid) ==
    /\ script.fn = "demo_mass_loopback_config"
    /\ script.at = "validate"
    /\ script' = IF is_valid THEN [script EXCEPT !.at = "configure"]
                 ELSE Returned(script, FALSE)
    /\ UNCHANGED send

\* lines 372-385: configure, verify (its send_command calls are not in a
\* try block), summary, save, disconnect
LoopbackDemoConfigure(verify_ok, disc_ok) ==
    /\ script.fn = "demo_mass_loopback_config"
    /\ script.at = "configure"
    /\ script' = IF verify_ok THEN Returned(Disconnected(script, disc_ok), disc_ok)
                 ELSE Returned(script, FALSE)
    /\ UNCHANGED send

ScriptsNext ==
    /\ \/ \E max_retries \in -1..MaxRetries : SafeSendCall(max_retries)
       \/ \E ok \in BOOLEAN : SendAttempt(ok)
       \/ SendExhausted
       \/ SafeSendReturn
       \/ \E connect_ok \in BOOLEAN : BackupDemoCall(connect_ok)
       \/ \E disc_ok \in BOOLEAN : BackupDemoRetrieved(disc_ok)
       \/ \E mkdir_ok, prompt_ok, write_ok \in BOOLEAN :
             BackupDemoSave(mkdir_ok, prompt_ok, write_ok)
       \/ \E disc_ok \in BOOLEAN : BackupDemoCleanup(disc_ok)
       \/ \E confirmed, connect_ok \in BOOLEAN : LoopbackDemoCall(confirmed, connect_ok)
       \/ \E enable_ok \in BOOLEAN : LoopbackDemoEnable(enable_ok)
       \/ \E is_valid \in BOOLEAN : LoopbackDemoValidate(is_valid)
       \/ \E verify_ok, disc_ok \in BOOLEAN : LoopbackDemoConfigure(verify_ok, disc_ok)
    /\ UNCHANGED <<object, main>>

\* The demo functions of the two scripts, called in any order.
SpecScripts == Init /\ [][ScriptsNext]_vars

\* ----------------------------------------------------------------- claims
\* inventory_devices has returned its summary and nothing was called since.
InventoryReturned == ret.op = "inventory_devices" /\ ret.exit = "return"

\* Every record of the list passed validation.
Validated(list) == \A i \in 1..Len(list) : _validate_device_config(list[i]) = "valid"

\* C1: for every list of N validated device records, every concurrency
\* limit K >= 1, every assignment of probe outcomes and every completion
\* order, the summary inventory_devices returns has
\* successful + failed = N and total_devices = N.
C1_CountsAddUp ==
    InventoryReturned =>
        /\ ret.value.successful + ret.value.failed = Len(devices)
        /\ ret.value.total_devices = Len(devices)

C1_Witness ==
    /\ InventoryReturned
    /\ Validated(devices)
    /\ ret.value.total_devices = MaxDevices
    /\ ret.value.successful >= 1
    /\ ret.value.failed >= 1

\* C2: while inventory_devices runs with limit K over N records, the number
\* of probes executing at the same time is at most K in every reachable
\* state, also when N > K.
C2_AtMostKProbes ==
    /\ Cardinality(Running) <= max_workers
    /\ InScan => max_workers >= 1

C2_Witness ==
    /\ InScan
    /\ Len(devices) > max_workers
    /\ Cardinality(Running) = max_workers
    /\ \E i \in 1..Len(fut) : fut[i].state = "PENDING"

\* C3: inventory_devices returns only after every one of the N submitted
\* probes has reached a terminal state (no early exit when a probe fails),
\* and under fair scheduling of the pool it always eventually returns.
C3_ReturnsAfterAllProbes ==
    /\ [][(InScan /\ pc' = "idle") =>
            (Len(fut) = Len(devices) /\ AllFinished)]_vars
    /\ (InScan ~> pc = "idle")

C3_Witness ==
    /\ InventoryReturned
    /\ ret.value.total_devices = MaxDevices
    /\ ret.value.failed = MaxDevices

\* detail holds exactly the statuses of the futures, one for each, in any order
OneStatusPerFuture(detail) ==
    /\ Len(detail) = Len(fut)
    /\ \E p \in [1..Len(fut) -> 1..Len(fut)] :
          /\ \A i, j \in 1..Len(fut) : p[i] = p[j] => i = j
          /\ \A i \in 1..Len(fut) : detail[p[i]] = fut[i].result[1]

\* C4: one probe's failure never aborts the others: whatever subset of the
\* validated device records has a failing probe, every probe runs to
\* completion, no exception reaches the caller of inventory_devices, and the
\* returned detail list holds exactly one DeviceStatus for each of the N
\* records, the failed ones with status 'failed' and an error message.
C4_FailureIsIsolated ==
    [][(InScan /\ pc' = "idle" /\ Validated(devices)) =>
        /\ ret'.exit = "return"
        /\ Len(fut) = Len(devices)
        /\ AllFinished
        /\ \A i \in 1..Len(fut) :
              /\ ~fut[i].raised
              /\ Len(fut[i].result) = 1
              /\ fut[i].result[1].name = DeviceName(devices[i])
              /\ fut[i].result[1].ip_address = devices[i]["host"]
              /\ fut[i].result[1].status \in {"connected", "failed"}
              /\ fut[i].result[1].status = "failed" <=> fut[i].result[1].error_message # None
        /\ OneStatusPerFuture(ret'.value.devices)
        /\ ret'.value.failed =
              Cardinality({ i \in 1..Len(fut) : fut[i].result[1].status = "failed" })]_vars

C4_Witness ==
    /\ InventoryReturned
    /\ Validated(devices)
    /\ Len(ret.value.devices) = 2
    /\ ret.value.devices[1].status = "failed"
    /\ ret.value.devices[2].status = "connected"

\* C5: during inventory_devices no worker task writes the shared
\* device_status mapping or the results summary: a step of a worker leaves
\* both unchanged, and every change of the mapping is the calling thread
\* storing the status of one finished future it has just collected, so no
\* two writes are concurrent.
C5_OnlyTheCallerWrites ==
    [][InScan =>
        /\ (Len(fut') = Len(fut) /\ fut' # fut) =>
              (device_status' = device_status /\ results' = results)
        /\ device_status' # device_status =>
              /\ fut' = fut
              /\ \E i \in 1..Len(fut) :
                    /\ fut[i].state = "FINISHED"
                    /\ collected' = collected \cup {i}
                    /\ i \notin collected
                    /\ device_status' =
                          Store(device_status, fut[i].result[1].name, fut[i].result[1])
        /\ (results' # results /\ pc' # "idle") =>
              (fut' = fut /\ \E i \in 1..Len(fut) :
                    fut[i].state = "FINISHED" /\ collected' = collected \cup {i})]_vars

C5_Witness ==
    /\ pc = "collect"
    /\ collected # {}
    /\ DOMAIN device_status # {}
    /\ Running # {}

\* A record misses a required field, or has it empty.
MissesRequired(device) ==
    \E f \in {"device_type", "host", "username", "password"} :
        f \notin DOMAIN device \/ device[f] = ""

\* Every candidate is a JSON object whose host, if it has one, is a string.
TypedRecords(list) ==
    \A i \in 1..Len(list) :
        /\ IsDict(list[i])
        /\ "host" \in DOMAIN list[i] => IsStr(list[i]["host"])

LoadEnded == ret.op = "load_devices" /\ ret.exit # "running"

IsDottedQuad(host) ==
    LET p == HostParts(host)
    IN  Len(p) = 4 /\ \A i \in 1..4 : p[i] \in 0..255

\* C8: a candidate record passes validation only if its host is a dotted
\* quad of four decimal octets 0..255, so after load_devices has returned
\* every loaded record has such a host.
C8_OnlyDottedQuadsLoaded ==
    (ret.op = "load_devices" /\ ret.exit = "return") =>
        \A i \in 1..Len(devices) : IsDottedQuad(devices[i]["host"])

\* A DeviceStatus as the prober makes it.
WellFormedStatus(st) ==
    /\ st.status \in {"connected", "failed"}
    /\ st.status = "connected" =>
          /\ st.uptime # None
          /\ st.version # None
          /\ st.interfaces_up # NoneInt
          /\ st.interfaces_total # NoneInt
          /\ st.error_message = None
    /\ st.status = "failed" =>
          /\ st.error_message # None
          /\ st.uptime = None
          /\ st.version = None
          /\ st.interfaces_up = NoneInt
          /\ st.interfaces_total = NoneInt

\* C9: every DeviceStatus the prober produces, and so every value held in
\* device_status, is connected or failed; connected has uptime, version and
\* the interface counts and no error message, failed has an error message
\* and none of the others; one probe call of a device record produces
\* exactly one DeviceStatus.
C9_StatusIsWellFormed ==
    /\ \A k \in DOMAIN device_status : WellFormedStatus(device_status[k])
    /\ \A i \in 1..Len(fut) :
          IF fut[i].state = "FINISHED" /\ ~fut[i].raised
          THEN Len(fut[i].result) = 1 /\ WellFormedStatus(fut[i].result[1])
          ELSE Len(fut[i].result) = 0
    /\ \A i \in 1..Len(fut) :
          (fut[i].state = "FINISHED" /\ _validate_device_config(devices[i]) = "valid")
              => ~fut[i].raised
    /\ InScan => \A i \in 1..Len(results.devices) : WellFormedStatus(results.devices[i])

C9_Witness ==
    /\ pc = "idle"
    /\ \E k \in DOMAIN device_status : device_status[k].status = "connected"
    /\ \E k \in DOMAIN device_status : device_status[k].status = "failed"

\* PENDING, CONNECTED or FAILED: where the probe of a future is.
ProbeState(f) ==
    IF f.state # "FINISHED" THEN "PENDING"
    ELSE IF f.raised THEN "RAISED"
    ELSE IF f.result[1].status = "connected" THEN "CONNECTED"
    ELSE "FAILED"

\* C10: within one inventory_devices call each device record is probed
\* exactly once: its probe goes from PENDING to CONNECTED or to FAILED and
\* stays there, with no retry after FAILED, and backup and report
\* operations never change the status of a DeviceStatus.
C10_ProbedOnce ==
    [][/\ \A i \in 1..Len(fut) :
             i <= Len(fut') =>
                /\ fut'[i].calls <= 1
                /\ ProbeState(fut[i]) # "PENDING" => fut'[i] = fut[i]
                /\ (fut'[i] # fut[i] /\ _validate_device_config(devices[i]) = "valid") =>
                      ProbeState(fut'[i]) \in {"PENDING", "CONNECTED", "FAILED"}
       /\ (InScan /\ pc' = "idle" /\ ret'.exit = "return") =>
             /\ Len(fut) = Len(devices)
             /\ \A i \in 1..Len(fut) : fut[i].calls = 1
       /\ pc \in {"idle", "backup"} =>
             \A k \in DOMAIN device_status :
                /\ k \in DOMAIN device_status'
                /\ device_status'[k].status = device_status[k].status]_vars

C10_Witness ==
    /\ ret.op = "backup_configurations"
    /\ ret.exit = "return"
    /\ ret.value.successful >= 1
    /\ \E k \in DOMAIN device_status :
          device_status[k].status = "failed" /\ device_status[k].last_backup # NoneInt

\* generate_inventory_report was the last call, and it returned a path.
ReportEnded == ret.op = "generate_inventory_report"

ReportReturned == ReportEnded /\ ret.exit = "return"

\* The per-device rows of a written report.
ReportRows(file) ==
    IF file.path.ext = "csv" THEN file.content.rows ELSE file.content.devices

\* C11: with an empty DeviceStatus mapping generate_inventory_report
\* succeeds for each of text, html, json and csv with device count 0 and no
\* per-device rows; it fails only on a write error or an unsupported format.
C11_EmptyMappingReports ==
    (ReportEnded /\ DOMAIN device_status = {}) =>
        /\ ret.exit \in {"return", "OSError", "ValueError"}
        /\ ret.exit = "OSError" => ret.written = <<>>
        /\ ret.exit = "ValueError" => ret.format \notin {"text", "html", "json", "csv"}
        /\ ret.exit = "return" =>
              /\ Len(ret.written) = 1
              /\ DOMAIN ReportRows(ret.written[1]) = {}
              /\ ret.format # "csv" => ret.written[1].content.total_devices = 0

\* The counts a parsed JSON report and a parsed CSV report give.
JsonCsvAgree(json, csv) ==
    /\ Cardinality(DOMAIN json.devices) = Cardinality(DOMAIN csv.rows)
    /\ json.total_devices = Cardinality(DOMAIN csv.rows)
    /\ json.summary.connected =
          Cardinality({ k \in DOMAIN csv.rows : csv.rows[k].status = "connected" })
    /\ json.summary.failed =
          Cardinality({ k \in DOMAIN csv.rows : csv.rows[k].status = "failed" })

\* C12: for every DeviceStatus mapping the JSON report and the CSV report
\* agree: as many device entries in the JSON as CSV data rows, and the
\* connected and failed counts of the JSON summary are the numbers of CSV
\* rows with status connected and failed.
C12_JsonAndCsvAgree ==
    /\ (ReportReturned /\ ret.format = "json") =>
          JsonCsvAgree(ret.written[1].content, _generate_csv_report(device_status))
    /\ (ReportReturned /\ ret.format = "csv") =>
          JsonCsvAgree(_generate_json_report(device_status, clock), ret.written[1].content)

C12_Witness ==
    /\ ReportReturned
    /\ ret.format = "json"
    /\ ret.written[1].content.summary.connected >= 1
    /\ ret.written[1].content.summary.failed >= 1
    /\ \E k \in DOMAIN device_status : device_status[k].last_backup # NoneInt

\* The fields of a DeviceStatus a report row shows; "Interfaces: u/t up"
\* shows the two interface counts.
RowFields(row) ==
    (DOMAIN row \ {"interfaces"})
    \cup (IF "interfaces" \in DOMAIN row THEN {"interfaces_up", "interfaces_total"} ELSE {})

\* What the head of a report shows next to the rows.
HeadFields(content) ==
    (DOMAIN content \ {"devices", "rows", "header", "summary"})
    \cup (IF "summary" \in DOMAIN content THEN DOMAIN content.summary ELSE {})

\* C13: the text, HTML, JSON and CSV reports all carry the same information
\* set: run timestamp, device count, connected and failed counts, and one
\* row per device with all ten DeviceStatus fields.
C13_SameInformationSet ==
    ReportReturned =>
        /\ {"generated", "total_devices", "connected", "failed"}
              \subseteq HeadFields(ret.written[1].content)
        /\ DOMAIN ReportRows(ret.written[1]) = DOMAIN device_status
        /\ \A k \in DOMAIN device_status :
              RowFields(ReportRows(ret.written[1])[k])
                 = { fieldnames[i] : i \in 1..Len(fieldnames) }

\* A report's content with its run timestamp taken out.
WithoutTimestamp(content) ==
    [f \in DOMAIN content \ {"generated"} |-> content[f]]

\* C14: calling generate_inventory_report twice with the same format and an
\* unchanged DeviceStatus mapping produces two report files whose contents
\* differ only in the timestamp.  In a state where the call has returned,
\* the second call is the one made now.
C14_TwoFilesSameContent ==
    ReportReturned =>
        LET first  == ret.written[1]
            second == ReportFile(device_status, ret.format, TRUE, clock)[1]
        IN  /\ second.path # first.path
            /\ WithoutTimestamp(second.content) = WithoutTimestamp(first.content)

\* C15: in the text report of a mapping with at least one entry, 'Connected
\* Devices' is the number of connected entries, 'Failed Devices' the number
\* of failed ones, their sum is 'Total Devices', and each connected device
\* with interfaces_up = u and interfaces_total = t has 'Interfaces: u/t up'.
C15_TextReportCounts ==
    (ReportReturned /\ ret.format = "text" /\ DOMAIN device_status # {}) =>
        LET text == ret.written[1].content
        IN  /\ text.connected = CountStatus(device_status, "connected")
            /\ text.failed = CountStatus(device_status, "failed")
            /\ text.connected + text.failed = text.total_devices
            /\ text.total_devices = Cardinality(DOMAIN device_status)
            /\ \A k \in DOMAIN device_status :
                  device_status[k].status = "connected" =>
                     text.devices[k].interfaces
                        = <<device_status[k].interfaces_up, device_status[k].interfaces_total>>

C15_Witness ==
    /\ ReportReturned
    /\ ret.format = "text"
    /\ ret.written[1].content.connected >= 1
    /\ ret.written[1].content.failed >= 1

\* backup_configurations was the last call, and it returned its summary.
BackupReturned == ret.op = "backup_configurations" /\ ret.exit = "return"

\* One pass of the backup loop over a device record.
BackupPass == pc = "backup" /\ pc' = "backup" /\ todo' # todo

\* C16: in backup_configurations a write failure for one device never
\* prevents the backup of the others: whatever failed before, a pass of the
\* loop either writes the next selected device and counts it successful or
\* counts it failed, and goes on to the device after it; on return
\* successful + failed = total_devices and backup_files has successful
\* entries.  Stated for device records that passed validation.
C16_WriteFailureIsIsolated ==
    /\ [][(BackupPass /\ Validated(devices)) =>
            /\ todo' = Tail(todo)
            /\ \/ /\ results'.successful = results.successful + 1
                  /\ results'.failed = results.failed
                  /\ results'.backup_files =
                        Append(results.backup_files, BackupPath(DeviceName(Head(todo)), clock))
               \/ /\ results'.failed = results.failed + 1
                  /\ results'.successful = results.successful
                  /\ results'.backup_files = results.backup_files]_vars
    /\ [](BackupReturned =>
            /\ ret.value.successful + ret.value.failed = ret.value.total_devices
            /\ Len(ret.value.backup_files) = ret.value.successful)
    /\ []((pc = "backup" /\ Validated(devices)) =>
            results.successful + results.failed + Len(todo) = results.total_devices)

\* a failed write came first and the device after it was still written
C16_Witness ==
    /\ BackupReturned
    /\ Validated(devices)
    /\ ret.value.total_devices = MaxDevices
    /\ ret.value.failed >= 1
    /\ ret.value.successful >= 1
    /\ ret.value.backup_files[1].name = DeviceName(devices[Len(devices)])
    /\ DeviceName(devices[1]) # DeviceName(devices[Len(devices)])

\* C17: after a backup_configurations call in which every write succeeds
\* there is one configuration-snapshot artifact per selected device: the
\* files written for distinct selected records are distinct, so the number
\* of distinct artifacts equals the number of selected devices.  Checked on
\* the calls that select every loaded record, the records being validated
\* and distinct.
C17_OneArtifactPerDevice ==
    (/\ BackupReturned
     /\ ret.value.failed = 0
     /\ ret.value.total_devices = Len(devices)
     /\ Validated(devices)
     /\ \A i, j \in 1..Len(devices) : i # j => devices[i] # devices[j]) =>
        Cardinality({ ret.value.backup_files[i] : i \in 1..Len(ret.value.backup_files) })
           = ret.value.total_devices

\* The fields of a DeviceStatus other than last_backup.
ButLastBackup(s) == [f \in DOMAIN s \ {"last_backup"} |-> s[f]]

\* C18: after a DeviceStatus has been created the only field any operation
\* changes is last_backup, and only backup_configurations changes it, on
\* the entry keyed by the device's name: backup_configurations adds and
\* removes no key and changes no other field, and
\* generate_inventory_report leaves device_status and the device records
\* unchanged.  (The scan stores newly created DeviceStatus objects.)
C18_OnlyLastBackupChanges ==
    [][/\ (pc = "backup" \/ ret'.op = "backup_configurations") =>
             /\ devices' = devices
             /\ DOMAIN device_status' = DOMAIN device_status
             /\ \A k \in DOMAIN device_status :
                   /\ ButLastBackup(device_status'[k]) = ButLastBackup(device_status[k])
                   /\ device_status'[k] # device_status[k] =>
                         /\ pc = "backup"
                         /\ k = DeviceName(Head(todo))
                         /\ Len(results'.backup_files) = Len(results.backup_files) + 1
       /\ ret'.op = "generate_inventory_report" =>
             /\ device_status' = device_status
             /\ devices' = devices
       /\ device_status' # device_status => pc \in {"collect", "backup"}]_vars

C18_Witness ==
    /\ BackupReturned
    /\ clock = MaxClock
    /\ Cardinality(DOMAIN device_status) = 2
    /\ \E k \in DOMAIN device_status :
          device_status[k].status = "connected" /\ device_status[k].last_backup = MaxClock
    /\ \E k \in DOMAIN device_status :
          device_status[k].status = "failed" /\ device_status[k].last_backup = NoneInt

\* C19: each key k of device_status maps to a DeviceStatus whose name is k;
\* when two device records have the same name no error is raised and the
\* mapping holds the status of the one whose result was collected last.
C19_LastWriteWins ==
    /\ [](\A k \in DOMAIN device_status : device_status[k].name = k)
    /\ [][\A i \in collected' \ collected :
             ~fut[i].raised =>
                /\ device_status'[fut[i].result[1].name] = fut[i].result[1]
                /\ pc' = "collect"
                /\ \A k \in DOMAIN device_status \ {fut[i].result[1].name} :
                      device_status'[k] = device_status[k]]_vars

C19_Witness ==
    /\ InventoryReturned
    /\ Len(ret.value.devices) = 2
    /\ ret.value.devices[1].name = ret.value.devices[2].name
    /\ ret.value.devices[1].status = "connected"
    /\ ret.value.devices[2].status = "failed"
    /\ device_status[ret.value.devices[1].name] = ret.value.devices[2]

\* main has returned its exit code.
MainExited == main.at = "exited"

\* The call that ended last left by an exception other than Ctrl-C.
OperationRaised == ret.exit \notin {"return", "KeyboardInterrupt"}

\* load_devices answered False (whatever happened inside it).
LoadFailed == ret.op = "load_devices" /\ ret.exit # "KeyboardInterrupt" /\ ~ret.value

\* The blocks main prints for the operations the command line asks for.
Requested(args) ==
    (IF args.inventory THEN {"INVENTORY SCAN RESULTS"} ELSE {})
    \cup (IF args.backup THEN {"BACKUP RESULTS"} ELSE {})
    \cup (IF args.report # None THEN {"REPORT GENERATION"} ELSE {})
    \cup (IF ~args.inventory /\ ~args.backup /\ args.report = None
          THEN {"COMPLETE NETWORK AUTOMATION SYSTEM DEMO"} ELSE {})

\* C20: main returns 1 when load_devices fails, and then runs no inventory,
\* backup or report operation; it returns 130 when interrupted by the user,
\* 1 when any operation raises another exception, and 0 only when every
\* requested operation ran without raising.
C20_ExitCodes ==
    /\ [](MainExited =>
            /\ main.exit_code \in {0, 1, 130}
            /\ main.exit_code = 130 <=> main.interrupted
            /\ (~main.interrupted /\ LoadFailed) =>
                  /\ main.exit_code = 1
                  /\ main.printed = {}
                  /\ device_status = <<>>
            /\ (~main.interrupted /\ ret.op # "load_devices" /\ OperationRaised) =>
                  main.exit_code = 1
            /\ main.exit_code = 1 => (LoadFailed \/ (ret.op # "load_devices" /\ OperationRaised))
            /\ main.exit_code = 0 =>
                  /\ ret.op # "load_devices"
                  /\ ret.exit = "return"
                  /\ main.printed = Requested(main.args))
    /\ [](main.at \notin {"start", "load", "exited"} =>
            /\ Len(devices) > 0
            /\ Validated(devices))
    /\ [][(main.at = "load" /\ pc = "idle" /\ ~ret.value /\ main' # main /\ ~main'.interrupted) =>
             (main' = Exited(1) /\ UNCHANGED object)]_vars

\* operations were asked for and the load failed
C20_Witness ==
    /\ MainExited
    /\ main.exit_code = 1
    /\ LoadFailed
    /\ ret.exit = "return"
    /\ ret.candidates >= 1
    /\ main.args.inventory
    /\ main.args.backup
    /\ main.args.report = "html"

\* main runs the full demo: no operation was asked for.
DemoMode(args) == ~args.inventory /\ ~args.backup /\ args.report = None

\* C21: a failure while generating one report is fatal to that report
\* request only: in the run-all mode of main, which generates text, html,
\* json and csv, the failure of one format does not prevent the generation
\* of the other formats, so when main ends only the format that failed can
\* be left ungenerated.
C21_ReportFailureIsLocal ==
    (/\ MainExited
     /\ ~main.interrupted
     /\ DemoMode(main.args)
     /\ ret.op = "generate_inventory_report") =>
        /\ ret.exit = "return" => main.formats = <<>>
        /\ ret.exit # "return" => main.formats = <<ret.format>>

\* The line of main a position stands for.
Line(at) ==
    CASE at = "start"            -> 754
      [] at = "load"             -> 775
      [] at = "if_inventory"     -> 780
      [] at = "inventory"        -> 782
      [] at = "if_backup"        -> 792
      [] at = "backup"           -> 794
      [] at = "if_report"        -> 805
      [] at = "report"           -> 807
      [] at = "if_none"          -> 816
      [] at = "demo_inventory"   -> 820
      [] at = "demo_backup_call" -> 822
      [] at = "demo_backup"      -> 823
      [] at = "demo_reports"     -> 826
      [] at = "exited"           -> 845

\* The names of the loaded devices.
LoadedNames == { DeviceName(devices[i]) : i \in 1..Len(devices) }

\* A call of the object's operation op begins in this step.
Begins(op) ==
    /\ ret'.op = op
    /\ ret' # ret
    /\ ret'.exit # "KeyboardInterrupt"
    /\ ret.op # op \/ ret.exit # "running"

\* C22: in every run of main the requested operations execute in the order
\* inventory, backup, report; with no operation flag main runs inventory,
\* backup and the four reports in the order text, html, json, csv.  A
\* report is generated from the inventory of the same run only if inventory
\* was requested in that run; otherwise from an empty mapping.
C22_FixedOrder ==
    /\ [][/\ Line(main'.at) >= Line(main.at)
          /\ Begins("inventory_devices") =>
                /\ main.at \in {"if_inventory", "if_none"}
                /\ main.at = "if_inventory" <=> main.args.inventory
                /\ main.at = "if_none" <=> DemoMode(main.args)
          /\ Begins("backup_configurations") =>
                /\ main.at \in {"if_backup", "demo_backup_call"}
                /\ main.at = "if_backup" <=> main.args.backup
          /\ Begins("generate_inventory_report") =>
                /\ main.at \in {"if_report", "demo_reports"}
                /\ main.at = "if_report" =>
                      /\ ret'.format = main.args.report
                      /\ main.args.inventory =>
                            DOMAIN device_status = LoadedNames
                      /\ ~main.args.inventory => device_status = <<>>
                /\ main.at = "demo_reports" =>
                      /\ ret'.format = Head(main.formats)
                      /\ DOMAIN device_status = LoadedNames]_vars
    /\ [](main.at = "demo_reports" =>
            \E n \in 0..4 : main.formats = SubSeq(<<"text", "html", "json", "csv">>, n + 1, 4))

C22_Witness ==
    /\ MainExited
    /\ main.exit_code = 0
    /\ main.args.inventory
    /\ main.args.backup
    /\ main.args.report = "json"
    /\ ret.written[1].content.total_devices = 2
    /\ \E k \in DOMAIN device_status : device_status[k].status = "failed"

\* C25: after any sequence of load_devices calls, whatever each returns,
\* the device list holds only records that passed validation; a load that
\* fails because a record makes validation raise leaves no unvalidated
\* record in the list.
C25_OnlyValidatedRecordsHeld ==
    (pc = "idle") => Validated(devices)

\* C26: after inventory_devices returns on a system whose device_status
\* was empty, the mapping agrees with the returned summary: total_devices
\* entries, successful of them connected and failed of them failed.
C26_MappingAgreesWithSummary ==
    (/\ main.at \in {"inventory", "demo_inventory"}
     /\ InventoryReturned) =>
        /\ Cardinality(DOMAIN device_status) = ret.value.total_devices
        /\ CountStatus(device_status, "connected") = ret.value.successful
        /\ CountStatus(device_status, "failed") = ret.value.failed

\* C27: after any sequence of load_devices and inventory_devices calls,
\* once the last inventory_devices has returned the keys of device_status
\* are exactly the names of the currently loaded devices.  Checked where the
\* loaded records and the probed hosts are well formed.
C27_KeysAreLoadedNames ==
    (/\ InventoryReturned
     /\ Validated(devices)
     /\ \A k \in DOMAIN device_status : IsStr(device_status[k].ip_address)) =>
        DOMAIN device_status = LoadedNames

\* C28: a DeviceStatus in device_status has a non-empty last_backup only if
\* a backup_configurations call has written a backup file for the device of
\* that name earlier in the run; in a run of main that has not reached its
\* backup no status has one.
C28_LastBackupMeansBackup ==
    (main.at \in {"inventory", "if_backup"}) =>
        \A k \in DOMAIN device_status : device_status[k].last_backup = NoneInt

\* The loaded devices a target list names.
Named_in(target_list) ==
    SelectSeq(devices, LAMBDA d : Get(d, "name") \in target_list
                                  \/ Get(d, "host") \in target_list)

\* C29: backup_configurations called with an explicit target list T backs
\* up exactly the loaded devices whose name or host is in T, for every T
\* including the empty list (which backs up no device); only when no list
\* is given does it back up all loaded devices.
C29_ExactlyTheTargets ==
    (pc = "backup" /\ Validated(devices)) =>
        results.total_devices =
            IF ret.target_devices.none THEN Len(devices)
            ELSE Len(Named_in(ret.target_devices.list))

\* C30: a report is written whole or not at all: whenever
\* generate_inventory_report raises, no report file has been created or
\* left partially written by that call.
C30_WholeOrNothing ==
    ReportEnded =>
        /\ ret.exit # "return" => ret.written = <<>>
        /\ ret.exit = "return" => (Len(ret.written) = 1 /\ ret.written[1].complete)

\* How often an event is in the trace of a safe_send_command call.
RECURSIVE Count(_, _)
Count(events, e) ==
    IF events = <<>> THEN 0
    ELSE (IF Head(events) = e THEN 1 ELSE 0) + Count(Tail(events), e)

\* max_retries as range() sees it
Attempts(max_retries) == IF max_retries < 0 THEN 0 ELSE max_retries

\* C23: safe_send_command sends the command at most max_retries times; it
\* returns (output, None) at the first attempt that succeeds and sends
\* nothing afterwards; when every attempt fails it returns (None, error)
\* after exactly max_retries attempts; it waits between two attempts only,
\* never after the last one; with max_retries = 0 it sends nothing and
\* returns an error.
C23_AtMostMaxRetries ==
    /\ [](/\ Count(send.events, "send") <= Attempts(send.max_retries)
          /\ \A i \in 1..Len(send.events) :
                send.events[i] = "sleep" =>
                   /\ i > 1 /\ send.events[i - 1] = "send"
                   /\ i < Len(send.events) => send.events[i + 1] = "send"
          /\ send.pc = "returned" =>
                /\ (send.error = None) <=> (send.output # None)
                /\ send.events # <<>> => send.events[Len(send.events)] = "send"
                /\ send.error = None =>
                      Count(send.events, "sleep") = Count(send.events, "send") - 1
                /\ send.error # None =>
                      /\ Count(send.events, "send") = Attempts(send.max_retries)
                      /\ send.max_retries > 0 =>
                            Count(send.events, "sleep") = send.max_retries - 1
                /\ send.max_retries = 0 => (send.events = <<>> /\ send.error # None))
    /\ [][(send.pc = "returned" /\ send'.pc = "returned") => send' = send]_vars

\* the second of three attempts succeeded
C23_Witness ==
    /\ send.pc = "returned"
    /\ send.max_retries = MaxRetries
    /\ send.error = None
    /\ send.events = <<"send", "sleep", "send">>

\* C24: connections are cleaned up on every path: in
\* backup_device_config_with_error_handling and in
\* demo_mass_loopback_config, whenever a device connection was opened,
\* disconnect is called on it before the function returns.
C24_AlwaysDisconnected ==
    (/\ script.fn \in {"backup_device_config_with_error_handling",
                       "demo_mass_loopback_config"}
     /\ script.at = "returned"
     /\ script.connection # "none") =>
        script.disconnects >= 1

====
